---- MODULE Spec2Model ----
(***************************************************************************)
(* A model of revitpythonwrapper's wrapper core:                           *)
(*   rpw/base.py          BaseObject, BaseObjectWrapper                    *)
(*   rpw/ui/selection.py  Selection, a wrapper of the host's uidoc.Selection*)
(*   rpw/exceptions.py    the error types                                  *)
(*                                                                         *)
(* Three specifications share the variables:                               *)
(*   Spec   the Selection wrapper over the host selection state,           *)
(*   SpecW  the generic attribute-forwarding wrapper,                      *)
(*   SpecM  attribute access on a wrapper, the call stack made explicit.   *)
(* base.py and selection.py import the error types as RPW_TypeError and    *)
(* RPW_Exception; exceptions.py spells them RpwTypeError and RpwException. *)
(* The model takes the two spellings to name the same types.               *)
(***************************************************************************)
EXTENDS Integers, Sequences, FiniteSets, TLC

\* Largest integer value of an element identifier; identifiers are 0..MaxId.
MaxId == 1
\* Longest list handed to add, to the constructor or to the `in` operator.
MaxIn == 2
\* Longest host selection the model lets add build.
MaxSel == 3
\* Plain attribute values are the integers 0..MaxVal.
MaxVal == 1
\* The interpreter's limit on the depth of the call stack (sys.getrecursionlimit()).
RecursionLimit == 30

VARIABLES
    selection,  \* the host's selection state: what uidoc.Selection.GetElementIds() yields
    wrappers,   \* each Selection wrapper's __dict__ slot '_revit_object'
    pc,         \* the caller's position: "caller" before a call, "returned" after it
    last,       \* the call that returned last: its arguments and what it returned or raised
    hattrs,     \* SpecW: the attributes of the host's objects
    wdict,      \* SpecW: the wrapper's instance __dict__
    wpc,        \* SpecW: the caller's position
    wlast,      \* SpecW: the call that returned last
    mslot,      \* SpecM: whether the wrapper's __dict__ holds '_revit_object'
    mpc,        \* SpecM: the frame on top of the call stack
    mdepth,     \* SpecM: the number of Python frames on the call stack
    mattr,      \* SpecM: the attribute name the top __getattr__ frame looks up
    mcall,      \* SpecM: the caller's call, the bottom of the stack
    mres        \* SpecM: how the outermost call ended

selvars == <<selection, wrappers, pc, last>>
wvars == <<hattrs, wdict, wpc, wlast>>
mvars == <<mslot, mpc, mdepth, mattr, mcall, mres>>
vars == <<selection, wrappers, pc, last, hattrs, wdict, wpc, wlast,
          mslot, mpc, mdepth, mattr, mcall, mres>>

(***************************************************************************)
(* Values of the host API as the wrapper sees them.                        *)
(***************************************************************************)
\* DB.ElementId(n)
ElementId(n) == [k |-> "ElementId", v |-> n]
\* a DB.Element, named by the integer value of its Id
Element(n) == [k |-> "Element", v |-> n]
\* a Python int
PyInt(n) == [k |-> "int", v |-> n]
\* Python's None
NoneVal == [k |-> "NoneType", v |-> 0]
\* element.Id
Id(e) == ElementId(e.v)
\* doc.GetElement(eid)
GetElement(eid) == Element(eid.v)
\* type(x) of one value
TypeOf(x) == x.k

IdRange == 0..MaxId
Items == {ElementId(n) : n \in IdRange} \cup {Element(n) : n \in IdRange}
            \cup {PyInt(n) : n \in IdRange}

RECURSIVE SeqsUpTo(_, _)
SeqsUpTo(S, n) ==
    IF n = 0 THEN {<<>>}
    ELSE LET shorter == SeqsUpTo(S, n - 1)
         IN  shorter \cup {Append(s, x) : s \in {t \in shorter : Len(t) = n - 1}, x \in S}

\* What a caller passes as elements / elements_or_ids / element_reference:
\* a Python list of values, or one value that is not a list (None included).
ListInputs == {[islist |-> TRUE, items |-> s] : s \in SeqsUpTo(Items, MaxIn)}
SingleInputs == {[islist |-> FALSE, items |-> <<x>>] : x \in Items \cup {NoneVal}}
Inputs == ListInputs \cup SingleInputs
NoneInput == [islist |-> FALSE, items |-> <<NoneVal>>]

\* type(elements_or_ids) of an argument
TypeOfInput(arg) == IF arg.islist THEN "list" ELSE TypeOf(arg.items[1])

\* Python truth value of an argument (`if elements:`)
Truthy(arg) ==
    IF arg.islist THEN arg.items # <<>>
    ELSE CASE TypeOf(arg.items[1]) = "NoneType" -> FALSE
           [] TypeOf(arg.items[1]) = "int" -> arg.items[1].v # 0
           [] OTHER -> TRUE

\* all([isinstance(e, T) for e in s])
AllOfType(s, T) == \A i \in 1..Len(s) : TypeOf(s[i]) = T

(***************************************************************************)
(* rpw/ui/selection.py: class Selection                                    *)
(***************************************************************************)
Wrappers == {"w1", "w2"}

\* uidoc.Selection.GetElementIds(), read through the handle h a wrapper stores
GetElementIds(h) == IF h = "uidoc.Selection" THEN selection ELSE <<>>

\* Selection.element_ids
element_ids(w) == GetElementIds(wrappers[w])

\* Selection.elements
elements(w) == [i \in 1..Len(element_ids(w)) |-> GetElement(element_ids(w)[i])]

\* Selection.__len__
len(w) == Len(element_ids(w))

\* Selection.__bool__
bool(w) == elements(w) # <<>>

\* Selection.add, lines 61-70: the list of ElementIds of the argument, or the
\* RPW_TypeError(list, type(elements_or_ids[0])) it raises
add_element_ids(l) ==
    IF AllOfType(l, "ElementId")
    THEN [ok |-> TRUE, ids |-> l, received |-> ""]
    ELSE IF AllOfType(l, "Element")
    THEN [ok |-> TRUE, ids |-> [i \in 1..Len(l) |-> Id(l[i])], received |-> ""]
    ELSE IF AllOfType(l, "int")
    THEN [ok |-> TRUE, ids |-> [i \in 1..Len(l) |-> ElementId(l[i].v)], received |-> ""]
    ELSE [ok |-> FALSE, ids |-> <<>>, received |-> TypeOf(l[1])]

\* add with the new identifiers put after the current selection
add_appending(arg, sel) ==
    LET n == add_element_ids(arg.items)
    IN  IF n.ok
        THEN [outcome |-> "ok", received |-> "", sel |-> sel \o n.ids]
        ELSE [outcome |-> "RPW_TypeError", received |-> n.received, sel |-> sel]

\* add selecting the identifiers that lead the argument before it raises
add_piecewise(arg, sel) ==
    LET n == add_element_ids(arg.items)
        lead == {i \in 1..Len(arg.items) :
                    \A j \in 1..i : TypeOf(arg.items[j]) = "ElementId"}
    IN  IF n.ok
        THEN [outcome |-> "ok", received |-> "", sel |-> n.ids \o sel]
        ELSE [outcome |-> "RPW_TypeError", received |-> n.received,
              sel |-> [i \in 1..Cardinality(lead) |-> arg.items[i]] \o sel]

\* Selection.add on host selection sel: how it ends and the host selection after it
add(arg, sel) ==
    LET n == add_element_ids(arg.items)
    IN  IF n.ok
        THEN [outcome |-> "ok", received |-> "", sel |-> n.ids \o sel]
        ELSE [outcome |-> "RPW_TypeError", received |-> n.received, sel |-> sel]

\* clear that drops the first identifier only
clear_first(sel) == IF sel = <<>> THEN <<>> ELSE Tail(sel)

\* Selection.clear on host selection sel
clear(sel) == <<>>

\* Selection.__init__ on host selection sel
Selection_init(arg, sel) ==
    IF Truthy(arg) THEN add(arg, sel)
    ELSE [outcome |-> "ok", received |-> "", sel |-> sel]

\* The reference types rpw.utils.coerce.to_element_ids accepts
Accepted == {"ElementId", "Element", "int"}

\* rpw.utils.coerce.to_element_ids: one identifier per reference, in order; a
\* reference of another type raises the type error
to_element_ids(arg) ==
    LET bad == {i \in 1..Len(arg.items) : TypeOf(arg.items[i]) \notin Accepted}
    IN  IF bad # {}
        THEN [ok |-> FALSE, ids |-> <<>>,
              received |-> TypeOf(arg.items[CHOOSE i \in bad : \A j \in bad : i <= j])]
        ELSE [ok |-> TRUE, received |-> "",
              ids |-> [i \in 1..Len(arg.items) |-> ElementId(arg.items[i].v)]]

\* __contains__ that looks at the first selected identifier only
contains_first(w, arg) ==
    LET r == to_element_ids(arg)
    IN  IF ~r.ok
        THEN [outcome |-> "RPW_TypeError", received |-> r.received, flag |-> FALSE]
        ELSE IF Len(r.ids) # 1
        THEN [outcome |-> "RPW_TypeError", received |-> TypeOfInput(arg), flag |-> FALSE]
        ELSE [outcome |-> "ok", received |-> "",
              flag |-> element_ids(w) # <<>> /\ element_ids(w)[1] = r.ids[1]]

\* Selection.__contains__ seen through wrapper w
contains(w, arg) ==
    LET r == to_element_ids(arg)
    IN  IF ~r.ok
        THEN [outcome |-> "RPW_TypeError", received |-> r.received, flag |-> FALSE]
        ELSE IF Len(r.ids) # 1
        THEN [outcome |-> "RPW_TypeError", received |-> TypeOfInput(arg), flag |-> FALSE]
        ELSE [outcome |-> "ok", received |-> "",
              flag |-> \E i \in 1..Len(element_ids(w)) : element_ids(w)[i] = r.ids[1]]

\* Python's list indexing, self.elements[index]
getitem(w, index) ==
    LET es == elements(w)
        n == Len(es)
    IN  IF 0 <= index /\ index < n
        THEN [outcome |-> "ok", result |-> es[index + 1]]
        ELSE IF -n <= index /\ index < 0
        THEN [outcome |-> "ok", result |-> es[n + index + 1]]
        ELSE [outcome |-> "IndexError", result |-> NoneVal]

Indices == (0 - MaxSel - 1)..(MaxSel + 1)

Returned(op, arg, index, outcome, received, result, flag, count) ==
    [op |-> op, arg |-> arg, index |-> index, outcome |-> outcome,
     received |-> received, result |-> result, flag |-> flag, count |-> count]

NoCall == Returned("none", NoneInput, 0, "ok", "", NoneVal, FALSE, 0)

\* selection = Selection(elements)
CallInit(w, arg) ==
    /\ pc = "caller"
    /\ LET r == Selection_init(arg, selection)
       IN  /\ Len(r.sel) <= MaxSel
           /\ selection' = r.sel
           /\ wrappers' = IF r.outcome = "ok"
                          THEN [wrappers EXCEPT ![w] = "uidoc.Selection"]
                          ELSE wrappers
           /\ last' = Returned("init", arg, 0, r.outcome, r.received, NoneVal, FALSE, 0)
    /\ pc' = "returned"
    /\ UNCHANGED <<wvars, mvars>>

\* selection.add(elements_or_ids)
CallAdd(w, arg) ==
    /\ pc = "caller"
    /\ wrappers[w] # "absent"
    /\ LET r == add(arg, selection)
       IN  /\ Len(r.sel) <= MaxSel
           /\ selection' = r.sel
           /\ last' = Returned("add", arg, 0, r.outcome, r.received, NoneVal, FALSE, 0)
    /\ pc' = "returned"
    /\ UNCHANGED <<wrappers, wvars, mvars>>

\* selection.clear()
CallClear(w) ==
    /\ pc = "caller"
    /\ wrappers[w] # "absent"
    /\ selection' = clear(selection)
    /\ last' = Returned("clear", NoneInput, 0, "ok", "", NoneVal, FALSE, 0)
    /\ pc' = "returned"
    /\ UNCHANGED <<wrappers, wvars, mvars>>

\* selection[index]
CallGetItem(w, index) ==
    /\ pc = "caller"
    /\ wrappers[w] # "absent"
    /\ LET r == getitem(w, index)
       IN  last' = Returned("getitem", NoneInput, index, r.outcome, "", r.result, FALSE, 0)
    /\ pc' = "returned"
    /\ UNCHANGED <<selection, wrappers, wvars, mvars>>

\* element_reference in selection
CallContains(w, arg) ==
    /\ pc = "caller"
    /\ wrappers[w] # "absent"
    /\ LET r == contains(w, arg)
       IN  last' = Returned("contains", arg, 0, r.outcome, r.received, NoneVal, r.flag, 0)
    /\ pc' = "returned"
    /\ UNCHANGED <<selection, wrappers, wvars, mvars>>

\* bool(selection)
CallBool(w) ==
    /\ pc = "caller"
    /\ wrappers[w] # "absent"
    /\ last' = Returned("bool", NoneInput, 0, "ok", "", NoneVal, bool(w), 0)
    /\ pc' = "returned"
    /\ UNCHANGED <<selection, wrappers, wvars, mvars>>

\* len(selection)
CallLen(w) ==
    /\ pc = "caller"
    /\ wrappers[w] # "absent"
    /\ last' = Returned("len", NoneInput, 0, "ok", "", NoneVal, FALSE, len(w))
    /\ pc' = "returned"
    /\ UNCHANGED <<selection, wrappers, wvars, mvars>>

\* the caller takes the result (or the exception) and goes on to its next call
Return ==
    /\ pc = "returned"
    /\ pc' = "caller"
    /\ last' = NoCall
    /\ UNCHANGED <<selection, wrappers, wvars, mvars>>

WIdle ==
    /\ hattrs = <<>>
    /\ wdict = <<>>
    /\ wpc = "off"
    /\ wlast = <<>>

MIdle ==
    /\ mslot = FALSE
    /\ mpc = "off"
    /\ mdepth = 0
    /\ mattr = ""
    /\ mcall = ""
    /\ mres = ""

Init ==
    /\ selection = <<>>
    /\ wrappers = [w \in Wrappers |-> "absent"]
    /\ pc = "caller"
    /\ last = NoCall
    /\ WIdle
    /\ MIdle

Next ==
    \/ pc = "caller" /\ \E w \in Wrappers, arg \in Inputs : CallInit(w, arg)
    \/ pc = "caller" /\ \E w \in Wrappers, arg \in Inputs : CallAdd(w, arg)
    \/ pc = "caller" /\ \E w \in Wrappers : CallClear(w)
    \/ pc = "caller" /\ \E w \in Wrappers, index \in Indices : CallGetItem(w, index)
    \/ pc = "caller" /\ \E w \in Wrappers, arg \in Inputs : CallContains(w, arg)
    \/ pc = "caller" /\ \E w \in Wrappers : CallBool(w)
    \/ pc = "caller" /\ \E w \in Wrappers : CallLen(w)
    \/ Return

Spec == Init /\ [][Next]_vars

(***************************************************************************)
(* Properties of Selection, checked under Spec.                            *)
(***************************************************************************)
Constructed(w) == wrappers[w] # "absent"

\* the members of a list are all identifiers, all elements or all raw integers
Uniform(items) == \E T \in Accepted : \A i \in 1..Len(items) : TypeOf(items[i]) = T

\* the identifier each member of a list stands for, in the list's order
IdentifiersOf(items) == [i \in 1..Len(items) |-> ElementId(items[i].v)]

\* the identifiers occurring in a sequence
Occurring(ids) == {ids[i] : i \in 1..Len(ids)}

\* C1: after add(N), or Selection(N), with N a non-empty uniform list, the host
\* selection and element_ids of every wrapper are N's identifiers in N's order
\* followed by the prior selection in its order, len(N) + len(P) long.
C1_AddPutsNewFirst ==
    [][(/\ pc' = "returned"
        /\ last'.op \in {"add", "init"}
        /\ last'.arg.islist
        /\ last'.arg.items # <<>>
        /\ Uniform(last'.arg.items))
       => /\ last'.outcome = "ok"
          /\ selection' = IdentifiersOf(last'.arg.items) \o selection
          /\ Len(selection') = Len(last'.arg.items) + Len(selection)
          /\ \A w \in Wrappers :
                wrappers'[w] # "absent"
                    => element_ids(w)' = IdentifiersOf(last'.arg.items) \o selection
      ]_vars

\* add([e1, e2]) of two elements with different identifiers onto a selection
\* that held an identifier already
C1_Witness ==
    /\ pc = "returned"
    /\ last.op = "add"
    /\ last.outcome = "ok"
    /\ last.arg.islist
    /\ Len(last.arg.items) = 2
    /\ TypeOf(last.arg.items[1]) = "Element"
    /\ last.arg.items[1].v # last.arg.items[2].v
    /\ Len(selection) = 3

\* C2: clear() leaves element_ids empty, len() 0 and bool() False through every
\* wrapper; len() and bool() report the host selection as it is; and bool()
\* turns True only by an add (or a construction) of at least one identifier.
C2_ClearEmpties ==
    [][/\ (pc' = "returned" /\ last'.op = "clear")
            => \A w \in Wrappers :
                  wrappers'[w] # "absent"
                      => /\ element_ids(w)' = <<>>
                         /\ len(w)' = 0
                         /\ ~bool(w)'
       /\ (pc' = "returned" /\ last'.op = "len") => last'.count = Len(selection)
       /\ (pc' = "returned" /\ last'.op = "bool") => last'.flag = (selection # <<>>)
       /\ (selection = <<>> /\ selection' # <<>>)
            => /\ last'.op \in {"add", "init"}
               /\ last'.outcome = "ok"
               /\ Len(last'.arg.items) >= 1
      ]_vars

\* clear() has returned and two wrappers look at the host selection
C2_Witness ==
    /\ pc = "returned"
    /\ last.op = "clear"
    /\ \A w \in Wrappers : Constructed(w)

\* the identifiers a reference normalizes to
ReferenceIds(arg) ==
    LET ok == SelectSeq(arg.items, LAMBDA x : TypeOf(x) \in Accepted)
    IN  IdentifiersOf(ok)

\* C3: `reference in selection` returns True exactly when the one identifier the
\* reference normalizes to occurs in element_ids, False when it does not, and
\* fails with the type error when the reference normalizes to zero or to more
\* than one identifier.
C3_ContainsIffOccurs ==
    (pc = "returned" /\ last.op = "contains")
        => IF Len(ReferenceIds(last.arg)) = 1
           THEN /\ last.outcome = "ok"
                /\ last.flag = (ReferenceIds(last.arg)[1] \in Occurring(selection))
           ELSE last.outcome = "RPW_TypeError"

\* e2 in Selection([e]) for an element e2 other than e: False
C3_Witness ==
    /\ pc = "returned"
    /\ last.op = "contains"
    /\ last.outcome = "ok"
    /\ ~last.arg.islist
    /\ TypeOf(last.arg.items[1]) = "Element"
    /\ Len(selection) = 1
    /\ selection[1] # Id(last.arg.items[1])
    /\ last.flag = FALSE

\* a list whose members are not all identifiers, not all elements, not all integers
Mixed(arg) == arg.islist /\ ~Uniform(arg.items)

\* the position of the first member of a mixed list that breaks the list's
\* uniformity: the first one of another type than the members before it
FirstOffending(items) ==
    CHOOSE i \in 1..Len(items) :
        /\ TypeOf(items[i]) \notin Accepted \/ TypeOf(items[i]) # TypeOf(items[1])
        /\ \A j \in 1..(i - 1) :
              TypeOf(items[j]) \in Accepted /\ TypeOf(items[j]) = TypeOf(items[1])

\* C4: add of a mixed-type list is rejected with the type error, and the error
\* names the type of the first offending member, wherever it stands in the list.
C4_MixedNamesFirstOffending ==
    (pc = "returned" /\ last.op \in {"add", "init"} /\ Mixed(last.arg))
        => /\ last.outcome = "RPW_TypeError"
           /\ last.received = TypeOf(last.arg.items[FirstOffending(last.arg.items)])

\* an index outside -len(elements) .. len(elements) - 1
OutOfRange(index, n) == index >= n \/ index < 0 - n

\* C7: selection[index] is the element at position index of selection.elements,
\* and None, with no error, when the index is out of range.
C7_GetItemNoneWhenOutOfRange ==
    (pc = "returned" /\ last.op = "getitem")
        => IF OutOfRange(last.index, Len(selection))
           THEN last.outcome = "ok" /\ last.result = NoneVal
           ELSE /\ last.outcome = "ok"
                /\ last.result = GetElement(selection[
                      IF last.index >= 0 THEN last.index + 1
                      ELSE Len(selection) + last.index + 1])

\* C10: an add (or a construction) that fails with the type error leaves the
\* host selection, and element_ids of every wrapper, as they were.
C10_FailedAddChangesNothing ==
    [][(/\ pc' = "returned"
        /\ last'.op \in {"add", "init"}
        /\ last'.outcome = "RPW_TypeError")
       => /\ selection' = selection
          /\ \A w \in Wrappers :
                (wrappers[w] # "absent" /\ wrappers'[w] # "absent")
                    => element_ids(w)' = element_ids(w)
      ]_vars

\* add of a list that starts with an identifier and goes on with an element has
\* failed on a selection that is not empty
C10_Witness ==
    /\ pc = "returned"
    /\ last.op = "add"
    /\ last.outcome = "RPW_TypeError"
    /\ last.arg.islist
    /\ Len(last.arg.items) = 2
    /\ TypeOf(last.arg.items[1]) = "ElementId"
    /\ TypeOf(last.arg.items[2]) = "Element"
    /\ selection # <<>>

(***************************************************************************)
(* rpw/base.py: class BaseObjectWrapper, under SpecW.                      *)
(* The host's objects: a Wall, a CurtainWall (a subclass of Wall), a Door. *)
(***************************************************************************)
Handles == {"wall", "curtainwall", "door"}
HostType(h) == CASE h = "wall" -> "Wall"
                 [] h = "curtainwall" -> "CurtainWall"
                 [] h = "door" -> "Door"
\* the base class of a host type
BaseOf(t) == IF t = "CurtainWall" THEN "Wall" ELSE "object"

\* a reference to a host object, a plain value, a bound method, no value
Obj(h) == [k |-> "object", v |-> h]
Plain(n) == [k |-> "int", v |-> ToString(n)]
Method == [k |-> "method", v |-> ""]
Absent == [k |-> "absent", v |-> ""]

\* type(value)
TypeName(value) == IF value.k = "object" THEN HostType(value.v) ELSE value.k

\* isinstance(value, class): class is on the chain of bases of type(value)
RECURSIVE IsSubclass(_, _)
IsSubclass(t, class) ==
    IF t = class THEN TRUE
    ELSE IF t = "object" THEN FALSE
    ELSE IsSubclass(BaseOf(t), class)
isinstance(value, class) == value.k = "object" /\ IsSubclass(HostType(value.v), class)

\* attribute names: one the host objects expose, one nobody exposes, one the
\* wrapper class defines, and the wrapper's private slot
Names == {"Pinned", "Comment", "unwrap", "_revit_object"}
\* names found on the wrapper's type: unwrap, __repr__, ToString, ...
ClassAttrs == {"unwrap"}
\* the attributes each host object exposes
Exposed(h) == IF h = "door" THEN {"unwrap"} ELSE {"Pinned"}

\* concrete wrapper classes and their _revit_object_class
WrapperClasses == {"WallWrapper", "DoorWrapper"}
revit_object_class(cls) == IF cls = "WallWrapper" THEN "Wall" ELSE "Door"

EmptyDict == [a \in Names |-> Absent]

\* hasattr(value, a) on the host side
hasattr(value, a, attrs) == value.k = "object" /\ attrs[value.v][a] # Absent

\* BaseObjectWrapper.__init__ accepting only the declared type itself
init_exact(cls, revit_object) ==
    IF ~(revit_object.k = "object"
         /\ HostType(revit_object.v) = revit_object_class(cls))
    THEN [outcome |-> "RPW_TypeError", received |-> TypeName(revit_object),
          obj |-> [class |-> cls, dict |-> EmptyDict]]
    ELSE [outcome |-> "ok", received |-> "",
          obj |-> [class |-> cls,
                   dict |-> [EmptyDict EXCEPT !["_revit_object"] = revit_object]]]

\* BaseObjectWrapper.__init__: how it ends and the wrapper object it leaves
BaseObjectWrapper_init(cls, revit_object) ==
    IF ~isinstance(revit_object, revit_object_class(cls))
    THEN [outcome |-> "RPW_TypeError", received |-> TypeName(revit_object),
          obj |-> [class |-> cls, dict |-> EmptyDict]]
    ELSE [outcome |-> "ok", received |-> "",
          obj |-> [class |-> cls,
                   dict |-> [EmptyDict EXCEPT !["_revit_object"] = revit_object]]]

\* BaseObjectWrapper.__getattr__, reached when the name is found neither in the
\* instance __dict__ nor on the class; the slot is in __dict__
getattr_hook(obj, attrs, a) ==
    LET stored == obj.dict["_revit_object"]
    IN  IF hasattr(stored, a, attrs)
        THEN [outcome |-> "ok", result |-> attrs[stored.v][a]]
        ELSE [outcome |-> "AttributeError", result |-> Absent]

\* reading w.a: instance __dict__, then the class, then __getattr__
getattr(obj, attrs, a) ==
    IF obj.dict[a] # Absent THEN [outcome |-> "ok", result |-> obj.dict[a]]
    ELSE IF a \in ClassAttrs THEN [outcome |-> "ok", result |-> Method]
    ELSE getattr_hook(obj, attrs, a)

\* __setattr__ that always stores on the wrapper
setattr_local(obj, attrs, a, value) ==
    [obj |-> [obj EXCEPT !.dict[a] = value], attrs |-> attrs]

\* BaseObjectWrapper.__setattr__: the wrapper object and the host attributes after it
setattr(obj, attrs, a, value) ==
    LET stored == getattr(obj, attrs, "_revit_object").result
    IN  IF hasattr(stored, a, attrs)
        THEN [obj |-> obj, attrs |-> [attrs EXCEPT ![stored.v][a] = value]]
        ELSE [obj |-> [obj EXCEPT !.dict[a] = value], attrs |-> attrs]

\* w.unwrap(): the bound method returns self._revit_object; a value stored
\* under the name unwrap in the instance __dict__ is not callable
unwrap(obj, attrs) ==
    IF obj.dict["unwrap"] # Absent
    THEN [outcome |-> "TypeError", result |-> Absent]
    ELSE getattr(obj, attrs, "_revit_object")

PlainValues == {Plain(n) : n \in 1..MaxVal}
ObjValues == {Obj(h) : h \in Handles}
\* what a caller hands to the constructor
InitValues == ObjValues \cup PlainValues
\* the (name, value) pairs a caller assigns
SetInputs == (Names \X PlainValues) \cup ({"_revit_object"} \X ObjValues)

WReturned(op, cls, a, value, outcome, received, result) ==
    [op |-> op, cls |-> cls, attr |-> a, value |-> value, outcome |-> outcome,
     received |-> received, result |-> result]
WNoCall == WReturned("none", "", "", Absent, "ok", "", Absent)

HasSlot == wdict.dict["_revit_object"] # Absent

\* w = cls(revit_object)
WCallInit(cls, revit_object) ==
    /\ wpc = "caller"
    /\ LET r == BaseObjectWrapper_init(cls, revit_object)
       IN  /\ wdict' = r.obj
           /\ wlast' = WReturned("init", cls, "", revit_object, r.outcome, r.received, Absent)
    /\ wpc' = "returned"
    /\ UNCHANGED <<hattrs, selvars, mvars>>

\* w.a
WCallGetAttr(a) ==
    /\ wpc = "caller"
    /\ HasSlot
    /\ LET r == getattr(wdict, hattrs, a)
       IN  wlast' = WReturned("getattr", wdict.class, a, Absent, r.outcome, "", r.result)
    /\ wpc' = "returned"
    /\ UNCHANGED <<hattrs, wdict, selvars, mvars>>

\* w.a = value
WCallSetAttr(a, value) ==
    /\ wpc = "caller"
    /\ HasSlot
    /\ LET r == setattr(wdict, hattrs, a, value)
       IN  /\ wdict' = r.obj
           /\ hattrs' = r.attrs
    /\ wlast' = WReturned("setattr", wdict.class, a, value, "ok", "", Absent)
    /\ wpc' = "returned"
    /\ UNCHANGED <<selvars, mvars>>

\* w.unwrap()
WCallUnwrap ==
    /\ wpc = "caller"
    /\ HasSlot
    /\ LET r == unwrap(wdict, hattrs)
       IN  wlast' = WReturned("unwrap", wdict.class, "", Absent, r.outcome, "", r.result)
    /\ wpc' = "returned"
    /\ UNCHANGED <<hattrs, wdict, selvars, mvars>>

\* the caller takes the result (or the exception) and goes on to its next call
WReturn ==
    /\ wpc = "returned"
    /\ wpc' = "caller"
    /\ wlast' = WNoCall
    /\ UNCHANGED <<hattrs, wdict, selvars, mvars>>

SelIdle ==
    /\ selection = <<>>
    /\ wrappers = [w \in Wrappers |-> "absent"]
    /\ pc = "off"
    /\ last = NoCall

InitW ==
    /\ hattrs = [h \in Handles |->
                    [a \in Names |-> IF a \in Exposed(h) THEN Plain(0) ELSE Absent]]
    /\ wdict = [class |-> "", dict |-> EmptyDict]
    /\ wpc = "caller"
    /\ wlast = WNoCall
    /\ SelIdle
    /\ MIdle

NextW ==
    \/ \E cls \in WrapperClasses, v \in InitValues : WCallInit(cls, v)
    \/ \E a \in Names : WCallGetAttr(a)
    \/ \E p \in SetInputs : WCallSetAttr(p[1], p[2])
    \/ WCallUnwrap
    \/ WReturn

SpecW == InitW /\ [][NextW]_vars

(***************************************************************************)
(* Properties of BaseObjectWrapper, checked under SpecW.                   *)
(***************************************************************************)
\* the host types that count as instances of each declared type
InstancesOf(class) == IF class = "Wall" THEN {"Wall", "CurtainWall"} ELSE {class}

\* value is a host object of the type the wrapper class declares, or of a subtype
OfDeclaredType(value, cls) ==
    value.k = "object" /\ HostType(value.v) \in InstancesOf(revit_object_class(cls))

Slot == wdict.dict["_revit_object"]

\* C5: construction succeeds exactly when the handle is an instance of the
\* declared type; then unwrap() returns that handle; otherwise construction
\* fails with the type error and no handle is stored. unwrap() returns what
\* the slot holds.
C5_WrapUnwrap ==
    /\ (wpc = "returned" /\ wlast.op = "init")
        => IF OfDeclaredType(wlast.value, wlast.cls)
           THEN /\ wlast.outcome = "ok"
                /\ Slot = wlast.value
                /\ unwrap(wdict, hattrs) = [outcome |-> "ok", result |-> wlast.value]
           ELSE /\ wlast.outcome = "RPW_TypeError"
                /\ wlast.received = TypeName(wlast.value)
                /\ Slot = Absent
    /\ (wpc = "returned" /\ wlast.op = "unwrap" /\ wlast.outcome = "ok")
        => wlast.result = Slot

\* a wrapper declared for Wall was built around a CurtainWall
C5_Witness ==
    /\ wpc = "returned"
    /\ wlast.op = "init"
    /\ wlast.cls = "WallWrapper"
    /\ wlast.value = Obj("curtainwall")
    /\ wlast.outcome = "ok"

\* the handle exposes the name and the wrapper does not have it itself
OnlyOnHandle(a) ==
    /\ hasattr(Slot, a, hattrs)
    /\ a \notin ClassAttrs
    /\ wdict.dict[a] = Absent

\* C6: when the handle exposes a and the wrapper does not, w.a reads the
\* handle's value and w.a = v sets it on the handle, adding nothing to the
\* wrapper; when the handle does not expose a, w.a = v stores v on the wrapper,
\* changes no attribute of any host object, and w.a then reads v.
C6_AttributeDelegation ==
    [][/\ (wpc' = "returned" /\ wlast'.op = "getattr" /\ OnlyOnHandle(wlast'.attr))
            => /\ wlast'.outcome = "ok"
               /\ wlast'.result = hattrs[Slot.v][wlast'.attr]
       /\ (wpc' = "returned" /\ wlast'.op = "setattr" /\ OnlyOnHandle(wlast'.attr))
            => /\ hattrs'[Slot.v][wlast'.attr] = wlast'.value
               /\ wdict' = wdict
               /\ \A h \in Handles, a \in Names :
                     <<h, a>> # <<Slot.v, wlast'.attr>> => hattrs'[h][a] = hattrs[h][a]
       /\ (wpc' = "returned" /\ wlast'.op = "setattr"
                /\ ~hasattr(Slot, wlast'.attr, hattrs))
            => /\ wdict'.dict[wlast'.attr] = wlast'.value
               /\ hattrs' = hattrs
               /\ \A a \in Names : a # wlast'.attr => wdict'.dict[a] = wdict.dict[a]
               /\ getattr(wdict', hattrs', wlast'.attr)
                     = [outcome |-> "ok", result |-> wlast'.value]
      ]_vars

\* w.Pinned = v has gone through to the wall, and w.Comment = v has stayed local
C6_Witness ==
    /\ wpc = "returned"
    /\ wlast.op = "setattr"
    /\ wlast.attr = "Comment"
    /\ Slot = Obj("wall")
    /\ hattrs["wall"]["Pinned"] = Plain(1)
    /\ wdict.dict["Pinned"] = Absent
    /\ wdict.dict["Comment"] = Plain(1)

\* C9: attribute-get, attribute-set and unwrap leave the stored handle the one
\* the constructor stored, an instance of the declared type.
C9_HandleNeverReplaced ==
    [][(wpc' = "returned" /\ wlast'.op \in {"getattr", "setattr", "unwrap"})
        => /\ wdict'.dict["_revit_object"] = wdict.dict["_revit_object"]
           /\ OfDeclaredType(wdict'.dict["_revit_object"], wdict'.class)
      ]_vars

(***************************************************************************)
(* rpw/base.py: attribute access on a wrapper whose __dict__ may lack the  *)
(* slot '_revit_object' (a subclass that never called the base __init__),  *)
(* under SpecM. The Python call stack is explicit: mdepth frames, the top  *)
(* one at mpc. The chain is                                                *)
(*   __getattr__(name): self.__dict__['_revit_object'] raises KeyError,    *)
(*       the handler formats the message with '{}'.format(self)            *)
(*   -> __repr__: reads self._revit_object, which no normal lookup finds   *)
(*   -> __getattr__('_revit_object') -> ...                                *)
(***************************************************************************)
\* the names a caller reads that normal lookup does not find on the wrapper
MissingNames == {"Pinned", "Comment", "_revit_object"}

\* a call of one more Python function: the frame it gets, or the interpreter's
\* error when the stack is full
Push(frame, a) ==
    IF mdepth >= RecursionLimit
    THEN /\ mpc' = "unwinding"
         /\ UNCHANGED <<mdepth, mattr>>
    ELSE /\ mpc' = frame
         /\ mdepth' = mdepth + 1
         /\ mattr' = a

\* w.name, the name not found by normal lookup: __getattr__(name) is called
MCallGetAttr(a) ==
    /\ mpc = "caller"
    /\ mdepth = 0
    /\ ~(mslot /\ a = "_revit_object")
    /\ mcall' = "getattr"
    /\ mpc' = "__getattr__"
    /\ mdepth' = 1
    /\ mattr' = a
    /\ mres' = ""
    /\ UNCHANGED <<mslot, selvars, wvars>>

\* repr(w)
MCallRepr ==
    /\ mpc = "caller"
    /\ mdepth = 0
    /\ mcall' = "repr"
    /\ mpc' = "__repr__"
    /\ mdepth' = 1
    /\ mattr' = ""
    /\ mres' = ""
    /\ UNCHANGED <<mslot, selvars, wvars>>

\* BaseObjectWrapper.__getattr__, lines 69-72
MGetAttrFrame ==
    /\ mpc = "__getattr__"
    /\ IF mslot
       THEN \* getattr(self.__dict__['_revit_object'], attr) returns or raises
            /\ mpc' = "done"
            /\ mres' = IF mattr = "Pinned" THEN "ok" ELSE "AttributeError"
            /\ mdepth' = 0
            /\ UNCHANGED mattr
       ELSE \* KeyError; the handler evaluates '...{}'.format(self) -> __repr__
            /\ Push("__repr__", mattr)
            /\ UNCHANGED mres
    /\ UNCHANGED <<mslot, mcall, selvars, wvars>>

\* BaseObjectWrapper.__repr__, lines 88-93
MReprFrame ==
    /\ mpc = "__repr__"
    /\ IF mslot
       THEN \* self._revit_object is found in __dict__ and the string is returned,
            \* to the caller or to the handler of __getattr__, which raises
            /\ mpc' = "done"
            /\ mres' = IF mdepth = 1 THEN "ok" ELSE "RPW_Exception"
            /\ mdepth' = 0
            /\ UNCHANGED mattr
       ELSE \* self._revit_object is not found: __getattr__('_revit_object')
            /\ Push("__getattr__", "_revit_object")
            /\ UNCHANGED mres
    /\ UNCHANGED <<mslot, mcall, selvars, wvars>>

\* the interpreter's recursion error leaves one frame; no frame catches it
\* (the handler in __getattr__ catches KeyError only)
MUnwind ==
    /\ mpc = "unwinding"
    /\ IF mdepth > 1
       THEN /\ mdepth' = mdepth - 1
            /\ UNCHANGED <<mpc, mres>>
       ELSE /\ mdepth' = 0
            /\ mpc' = "done"
            /\ mres' = "RecursionError"
    /\ UNCHANGED <<mslot, mattr, mcall, selvars, wvars>>

\* the caller takes the result (or the exception) and goes on to its next call
MReturn ==
    /\ mpc = "done"
    /\ mpc' = "caller"
    /\ UNCHANGED <<mslot, mdepth, mattr, mcall, mres, selvars, wvars>>

InitM ==
    /\ mslot \in BOOLEAN
    /\ mpc = "caller"
    /\ mdepth = 0
    /\ mattr = ""
    /\ mcall = ""
    /\ mres = ""
    /\ SelIdle
    /\ WIdle

NextM ==
    \/ \E a \in MissingNames : MCallGetAttr(a)
    \/ MCallRepr
    \/ MGetAttrFrame
    \/ MReprFrame
    \/ MUnwind
    \/ MReturn

SpecM == InitM /\ [][NextM]_vars

\* C8: attribute-get of a name not found on a wrapper without the handle slot
\* ends, and ends with the generic wrapper error.
C8_MalformedRaisesWrapperError ==
    (mpc = "done" /\ ~mslot /\ mcall = "getattr") => mres = "RPW_Exception"

====
